---- MODULE Spec2Model ----
(***************************************************************************)
(* State-machine model of the PDF selection viewer:                        *)
(*   - GeminiChat (components/GeminiChat.tsx) and the streaming client     *)
(*     streamFromGemini (lib/gemini.ts): the chat session;                 *)
(*   - ViewerPage (app/viewer/page.tsx): the page-level selection and the  *)
(*     toolbar bridge into the chat;                                       *)
(*   - PDFViewer (components/PDFViewer.tsx): region capture and the        *)
(*     annotation store;                                                   *)
(*   - SelectionToolbar (components/SelectionToolbar.tsx): saveAnnotation. *)
(*                                                                         *)
(* One action is one event handler together with the React render and the  *)
(* effects it triggers (state updaters are applied in the order they were  *)
(* queued, effects run in declaration order before the next event).        *)
(* Message text is a sequence of tokens; string concatenation is \o.       *)
(***************************************************************************)
EXTENDS Integers, Sequences, FiniteSets, TLC

\* ------------------------------------------------------------------ bounds

\* handleSend invocations followed in one behaviour
MaxTurns == 2
\* text fragments one response stream delivers
MaxChunks == 2
\* messages already in the durable chat copy when the viewer is opened
MaxStored == 11

\* lines one response stream delivers when its events are followed one by one
MaxLines == 3

\* annotations held by the viewer at once
MaxAnnotations == 2
\* rect-less records the toolbar appends to the annotation blob
MaxToolbarRecords == 1
\* milliseconds the clock advances
MaxClock == 1
\* characters of a natively selected text
MaxText == 4
\* documents the registry creates
MaxPdfs == 2
\* annotations the registry creates
MaxDbAnnotations == 2

\* ------------------------------------------------------- program constants

\* gemini.ts: chatHistory.slice(-10)
HistoryWindow == 10
\* PDFViewer.handleMouseUp: width > 10 && height > 10
DragThreshold == 10
\* PDFViewer: useState(1.2), Math.min(prev + 0.2, 2.5), Math.max(prev - 0.2, 0.5),
\* in tenths
InitialScale == 12
ScaleStep == 2
MaxScale == 25
MinScale == 5

\* ------------------------------------------------------------------ values

\* an absent image (imageData undefined); a captured image is its pixel size
NoImage == [width |-> 0, height |-> 0]

\* an absent rect (Selection.rect undefined)
NoRect == [x |-> 0, y |-> 0, width |-> 0, height |-> 0]

\* selection === null
NoSelection ==
    [type |-> "none", content |-> "", pageNumber |-> 0,
     imageData |-> NoImage, rect |-> NoRect]

\* loadDb() when data/pdfs.json does not exist
EmptyDb == [pdfs |-> <<>>, annotations |-> <<>>, nextPdfId |-> 1, nextAnnotationId |-> 1]

\* localStorage.getItem(key) === null
NoItem == [present |-> FALSE, value |-> <<>>]

\* the text fragments (choices[0].delta.content) of the valid events of a
\* response stream, in the order the server sends them
ResponseStream == <<"Hel", "lo ", "world", "!">>

\* what the user can have typed into the chat input
Inputs == {"", " q"}

\* the i-th character of a string
CharAt(s, i) == SubSeq(s, i, i)

\* the white space of the modelled texts
WhitespaceClass == {" "}

RECURSIVE TrimStart(_)
TrimStart(s) ==
    IF Len(s) > 0 /\ CharAt(s, 1) \in WhitespaceClass
    THEN TrimStart(SubSeq(s, 2, Len(s))) ELSE s

RECURSIVE TrimEnd(_)
TrimEnd(s) ==
    IF Len(s) > 0 /\ CharAt(s, Len(s)) \in WhitespaceClass
    THEN TrimEnd(SubSeq(s, 1, Len(s) - 1)) ELSE s

\* String.prototype.trim
Trim(s) == TrimEnd(TrimStart(s))

VARIABLES
    messages,       \* GeminiChat: useState<Message[]>
    messagesRef,    \* GeminiChat: messagesRef.current
    input,          \* GeminiChat: the input box
    isLoading,      \* GeminiChat: useState(false)
    pendingImage,   \* GeminiChat: pendingImage
    chatStorage,    \* localStorage["pdf_viewer_chat_history"]
    apiKeySet,      \* process.env.NEXT_PUBLIC_OPENROUTER_API_KEY is usable
    turns,          \* the handleSend invocations: pc, fullResponse, request, and
                    \* (history) the lines received from the response stream
    afterClear,     \* history: "no" | "cleared" | "streamed" (since the last clear)
    pageSelection,  \* ViewerPage: useState<Selection | null>
    selection,      \* PDFViewer: useState<Selection | null>
    isSelecting,    \* PDFViewer: a region drag is in progress
    selectionRect,  \* PDFViewer: the drag's start/end points and page
    annotations,    \* PDFViewer: useState<Annotation[]>
    annStorage,     \* localStorage["pdf_viewer_annotations"]
    now,            \* Date.now()
    filterStatus,   \* PDFViewer: useState<string>("all")
    pdfFile,        \* PDFViewer: the open document, "none" for null
    pdfStorage,     \* localStorage["pdf_viewer_current_pdf"]: the stored document
    restored,       \* history: "kept" | "dropped": what the last reload's restore
                    \* did; "deleted": the last delete removed something; "no"
                    \* once the collection changed otherwise
    db,             \* db.ts: the Database in data/pdfs.json
    scale,          \* PDFViewer: the zoom, in tenths (useState(1.2) is 12)
    canvasRatio,    \* the page canvas: pixel size / displayed size, in halves
    crashed         \* an error thrown in an effect has unmounted the React tree

chatVars ==
    <<messages, messagesRef, input, isLoading, pendingImage, chatStorage,
      apiKeySet, turns, afterClear>>

pageVars == <<pageSelection>>

docVars ==
    <<filterStatus, pdfFile, pdfStorage, db, scale, canvasRatio, crashed>>

viewerVars ==
    <<selection, isSelecting, selectionRect, annotations, annStorage, now,
      restored, docVars>>

vars == <<chatVars, pageVars, viewerVars>>

TurnIds == 1..MaxTurns

\* ------------------------------------------------------------ chat helpers

\* m.isStreaming is falsy
NotStreaming(m) == ~m.isStreaming

\* messages.filter(m => !m.isStreaming)
CommittedHistory(msgs) == SelectSeq(msgs, NotStreaming)

\* a faulty window, slice(0, n): the first n elements (sensitivity of
\* C3_RequestWindow)
SliceFirst(s, n) ==
    IF Len(s) <= n THEN s ELSE SubSeq(s, 1, n)

\* Array.prototype.slice(-n): the last n elements, all of them when fewer
SliceLast(s, n) ==
    IF Len(s) <= n THEN s ELSE SubSeq(s, Len(s) - n + 1, Len(s))

\* one entry of the request body's messages array (text, or text + image part)
RequestMessage(role, content, image) ==
    [role |-> role, content |-> content, image |-> image]

HistoryEntry(m) == RequestMessage(m.role, m.content, m.imageData)

\* streamFromGemini: recentHistory entries, then the current message
BuildRequest(prompt, imageBase64, chatHistory) ==
    LET recentHistory == SliceLast(chatHistory, HistoryWindow)
    IN  [i \in 1..Len(recentHistory) |-> HistoryEntry(recentHistory[i])]
            \o <<RequestMessage("user", <<prompt>>, imageBase64)>>

\* a faulty update that turns the write on an empty array into an element
\* (sensitivity of C5_ClearedStaysEmpty)
SetLastContentGrows(prev, content) ==
    IF Len(prev) = 0
    THEN <<[role |-> "assistant", content |-> content, imageData |-> NoImage,
            isStreaming |-> FALSE, turn |-> 0]>>
    ELSE [prev EXCEPT ![Len(prev)].content = content]

\* updated[updated.length - 1] = f(updated[updated.length - 1]) on a copy of
\* prev; on an empty array the write goes to the property "-1", which is no
\* element: the array stays empty
SetLastContent(prev, content) ==
    IF Len(prev) = 0 THEN prev
    ELSE [prev EXCEPT ![Len(prev)].content = content]

SetLastDone(prev) ==
    IF Len(prev) = 0 THEN prev
    ELSE [prev EXCEPT ![Len(prev)].isStreaming = FALSE]

\* a faulty save effect that writes every message (sensitivity of
\* C10_NoStreamingStored)
SaveEffectUnfiltered(msgs, store) ==
    IF Len(msgs) > 0 THEN [present |-> TRUE, value |-> msgs] ELSE store

\* the save effect: messagesRef.current = messages; write the non-streaming
\* messages unless there are none
SaveEffect(msgs, store) ==
    LET toSave == CommittedHistory(msgs)
    IN  IF Len(toSave) > 0 THEN [present |-> TRUE, value |-> toSave] ELSE store

\* the load effect: JSON.parse(saved) when the item exists
LoadChat(store) == IF store.present THEN store.value ELSE <<>>

\* const userMessage = { role: "user", content: messageText || ..., imageData }
UserMessage(messageText, imageToSend, t) ==
    [role |-> "user",
     content |-> <<IF messageText # "" THEN messageText ELSE "Analyze this image">>,
     imageData |-> imageToSend, isStreaming |-> FALSE, turn |-> t]

\* const assistantMessage = { role: "assistant", content: "", isStreaming: true }
AssistantPlaceholder(t) ==
    [role |-> "assistant", content |-> <<>>, imageData |-> NoImage,
     isStreaming |-> TRUE, turn |-> t]

IdleTurn ==
    [pc |-> "idle", fullResponse |-> <<>>, request |-> <<>>, received |-> <<>>,
     offset |-> 0]

EndedTurn(how) ==
    [pc |-> how, fullResponse |-> <<>>, request |-> <<>>, received |-> <<>>,
     offset |-> 0]

InFlight(t) == turns[t].pc \in {"fetching", "reading"}

\* the next handleSend invocation
NextTurn == CHOOSE t \in TurnIds : turns[t].pc = "idle" /\ \A u \in 1..(t-1) : turns[u].pc # "idle"

CanStartTurn == \E t \in TurnIds : turns[t].pc = "idle"

\* ------------------------------------------------------------- chat: send

\* handleSend(messageText, imageToSend), up to the first await of
\* streamFromGemini; keepImage is what the attachedImage effect, when it runs in
\* the same commit, leaves in pendingImage
HandleSend(messageText, imageToSend, keepImage) ==
    LET t == NextTurn
        currentHistory == CommittedHistory(messagesRef)
        prompt == IF messageText # "" THEN messageText ELSE "Analyze this image."
        appended == messages \o <<UserMessage(messageText, imageToSend, t),
                                  AssistantPlaceholder(t)>>
        keyError == <<"Error: Please set NEXT_PUBLIC_OPENROUTER_API_KEY">>
        final == IF apiKeySet THEN appended
                 ELSE SetLastDone(SetLastContent(appended, keyError))
    IN  /\ CanStartTurn
        /\ (messageText # "" \/ imageToSend # NoImage)
        /\ messages' = final
        /\ messagesRef' = final
        /\ chatStorage' = SaveEffect(final, SaveEffect(appended, chatStorage))
        /\ input' = ""
        /\ isLoading' = apiKeySet
        /\ pendingImage' = keepImage
        /\ turns' = [turns EXCEPT ![t] =
                IF apiKeySet
                THEN [pc |-> "fetching", fullResponse |-> <<>>,
                      request |-> BuildRequest(prompt, imageToSend, currentHistory),
                      received |-> <<>>, offset |-> 0]
                ELSE EndedTurn("completed")]
        /\ afterClear' = "no"
        /\ UNCHANGED apiKeySet

\* onChange of the input box (the box is disabled while isLoading)
TypeInput(v) ==
    /\ ~isLoading
    /\ input # v
    /\ input' = v
    /\ UNCHANGED <<messages, messagesRef, isLoading, pendingImage, chatStorage,
                   apiKeySet, turns, afterClear, pageVars, viewerVars>>

\* handleManualSend, from the Send button or Enter in the input box: both
\* are disabled while isLoading
handleManualSend ==
    LET text == Trim(input)
    IN  /\ ~isLoading
        /\ (text # "" \/ pendingImage # NoImage)
        /\ HandleSend(IF text # "" THEN text ELSE "Analyze this image",
                      pendingImage, NoImage)
        /\ UNCHANGED <<pageVars, viewerVars>>

\* SelectionToolbar.handleExplain: the prompt text depends on the kind of the
\* selection (handleSummarize and handleCalculate differ in the text only)
ToolbarPrompt(sel) ==
    IF sel.type = "equation" THEN "Explain this equation step by step: content"
    ELSE IF sel.type \in {"image", "region"}
    THEN "Explain what you see in this image. Be detailed."
    ELSE "Explain this concept clearly: content"

\* ViewerPage.handleToolbarAction: setPendingPrompt(prompt), setPendingImage
\* when the selection has an image; then, in the commit that follows,
\* GeminiChat's effects: handleSend(initialPrompt, attachedImage) and
\* onPromptUsed(), then setPendingImage(attachedImage) when one is attached
handleToolbarAction ==
    LET initialPrompt == ToolbarPrompt(pageSelection)
        attachedImage == pageSelection.imageData
    IN  /\ pageSelection # NoSelection
        /\ HandleSend(initialPrompt, attachedImage, attachedImage)
        /\ UNCHANGED <<pageVars, viewerVars>>

\* handleClear
handleClear ==
    /\ messages' = <<>>
    /\ messagesRef' = <<>>
    /\ pendingImage' = NoImage
    /\ chatStorage' = NoItem
    /\ afterClear' = "cleared"
    /\ UNCHANGED <<input, isLoading, apiKeySet, turns, pageVars, viewerVars>>

\* the Remove button of the pending image
RemovePendingImage ==
    /\ pendingImage # NoImage
    /\ pendingImage' = NoImage
    /\ UNCHANGED <<messages, messagesRef, input, isLoading, chatStorage,
                   apiKeySet, turns, afterClear, pageVars, viewerVars>>

\* ----------------------------------------------------------- chat: stream

NoteStreamStep == IF afterClear = "no" THEN "no" ELSE "streamed"

\* onChunk(text) for turn t: fullResponse += chunk; the last message's
\* content becomes fullResponse; render and save effect
OnChunk(msgs, full) == SetLastContent(msgs, full)

\* after await streamFromGemini: the last message's isStreaming is cleared,
\* setIsLoading(false)
FinishTurn(t, msgs, how) ==
    LET final == SetLastDone(msgs)
    IN  /\ messages' = final
        /\ messagesRef' = final
        /\ chatStorage' = SaveEffect(final, chatStorage)
        /\ isLoading' = FALSE
        /\ turns' = [turns EXCEPT ![t] = EndedTurn(how)]
        /\ afterClear' = NoteStreamStep
        /\ UNCHANGED <<input, pendingImage, apiKeySet, pageVars, viewerVars>>

\* streamFromGemini's error paths all end in onChunk(errorText) and a normal
\* return, so handleSend's own catch never runs
FailTurn(t, errorText) ==
    LET full == turns[t].fullResponse \o <<errorText>>
    IN  FinishTurn(t, OnChunk(messages, full), "failed")

\* fetch resolves with response.ok and a body reader
FetchOk(t) ==
    /\ turns[t].pc = "fetching"
    /\ turns' = [turns EXCEPT ![t].pc = "reading"]
    /\ UNCHANGED <<messages, messagesRef, input, isLoading, pendingImage,
                   chatStorage, apiKeySet, afterClear, pageVars, viewerVars>>

\* fetch rejects: catch, onChunk("\nError: ...")
FetchFail(t) ==
    /\ turns[t].pc = "fetching"
    /\ FailTurn(t, "\nError: message")

\* !response.ok: onChunk(`Error: ${status} - ${body}`), return
ResponseNotOk(t) ==
    /\ turns[t].pc = "fetching"
    /\ FailTurn(t, "Error: status")

\* response.body has no reader: onChunk("Error: No response stream"), return
NoResponseStream(t) ==
    /\ turns[t].pc = "fetching"
    /\ FailTurn(t, "Error: No response stream")

\* the lines a read can hold: a valid event with a text fragment; a data
\* line whose payload is not JSON ("bad"); a data line with JSON null, which
\* has no choices ("null"); a valid event without content; the [DONE]
\* sentinel; a line that does not start with "data: "
LineKinds == {"text", "bad", "null", "nocontent", "done", "other"}

EventLine(kind, fragment) ==
    [data |-> kind # "other", payload |-> kind,
     text |-> IF kind = "text" THEN fragment ELSE ""]

\* a faulty decoder in which an event that cannot be decoded ends the
\* line's processing with its raw text (sensitivity of C14_MalformedSkipped)
LineTextsRaw(line) ==
    IF ~line.data \/ line.payload = "done" THEN <<>>
    ELSE IF line.payload \in {"bad", "null"} THEN <<line.payload>>
    ELSE IF line.text = "" THEN <<>>
    ELSE <<line.text>>

\* the body of the for loop over one line: what it passes to onChunk
LineTexts(line) ==
    IF ~line.data THEN <<>>                       \* !line.startsWith('data: ')
    ELSE IF line.payload = "done" THEN <<>>       \* data === '[DONE]': continue
    ELSE IF line.payload = "bad" THEN <<>>        \* JSON.parse throws: catch
    ELSE IF line.payload = "null" THEN <<>>       \* null.choices throws: catch
    ELSE IF line.text = "" THEN <<>>              \* if (text) fails
    ELSE <<line.text>>

\* the for loop over the lines of one read
RECURSIVE ReadTexts(_)
ReadTexts(lines) ==
    IF lines = <<>> THEN <<>>
    ELSE LineTexts(Head(lines)) \o ReadTexts(Tail(lines))

\* the lines of a read with the given kinds: the k-th valid text event of a
\* stream carries the k-th fragment of ResponseStream
RECURSIVE LinesOf(_, _)
LinesOf(kinds, sent) ==
    IF kinds = <<>> THEN <<>>
    ELSE <<EventLine(Head(kinds), ResponseStream[sent + 1])>>
            \o LinesOf(Tail(kinds),
                       IF Head(kinds) = "text" THEN sent + 1 ELSE sent)

\* the reads of one or two whole lines
Reads == [1..1 -> LineKinds] \cup [1..2 -> LineKinds]

\* a read delivers the lines of the given kinds: onChunk for each text the
\* loop finds, in order
ReadEvents(t, kinds) ==
    LET lines == LinesOf(kinds, Len(turns[t].fullResponse))
        texts == ReadTexts(lines)
        full == turns[t].fullResponse \o texts
        updated == IF texts = <<>> THEN messages ELSE OnChunk(messages, full)
    IN  /\ turns[t].pc = "reading"
        /\ Len(turns[t].received) + Len(kinds) <= MaxLines
        /\ turns' = [turns EXCEPT ![t].fullResponse = full,
                                  ![t].received = turns[t].received \o lines]
        /\ messages' = updated
        /\ messagesRef' = updated
        /\ chatStorage' = SaveEffect(updated, chatStorage)
        /\ afterClear' = IF texts = <<>> THEN afterClear ELSE NoteStreamStep
        /\ UNCHANGED <<input, isLoading, pendingImage, apiKeySet, pageVars, viewerVars>>

\* the response body as the server writes it: one event line per fragment,
\* then the sentinel; the JSON payload {"choices":[{"delta":{"content":f}}]}
\* is written {f}
WireStream == "data: {Hel}\ndata: {lo }\ndata: [DONE]\n"

\* chunk.split('\n')
RECURSIVE SplitLines(_)
SplitLines(chunk) ==
    IF \E i \in 1..Len(chunk) : CharAt(chunk, i) = "\n"
    THEN LET cut == CHOOSE i \in 1..Len(chunk) :
                        /\ CharAt(chunk, i) = "\n"
                        /\ \A j \in 1..(i - 1) : CharAt(chunk, j) # "\n"
         IN  <<SubSeq(chunk, 1, cut - 1)>>
                \o SplitLines(SubSeq(chunk, cut + 1, Len(chunk)))
    ELSE <<chunk>>

\* JSON.parse(data) followed by parsed.choices?.[0]?.delta?.content, on the
\* payloads written {f}: <<f>>, or <<>> when the parse throws or the content
\* is empty
PayloadTexts(data) ==
    IF /\ Len(data) > 2
       /\ CharAt(data, 1) = "{"
       /\ CharAt(data, Len(data)) = "}"
       /\ \A i \in 2..(Len(data) - 1) : CharAt(data, i) \notin {"{", "}"}
    THEN <<SubSeq(data, 2, Len(data) - 1)>>
    ELSE <<>>

\* the body of the for loop on the text of one line
WireLineTexts(line) ==
    IF Len(line) >= 6 /\ SubSeq(line, 1, 6) = "data: "     \* line.startsWith('data: ')
    THEN LET data == SubSeq(line, 7, Len(line))            \* line.slice(6)
         IN  IF data = "[DONE]" THEN <<>> ELSE PayloadTexts(data)
    ELSE <<>>

\* the for loop over the lines of one read, on text
RECURSIVE WireTexts(_)
WireTexts(lines) ==
    IF lines = <<>> THEN <<>>
    ELSE WireLineTexts(Head(lines)) \o WireTexts(Tail(lines))

\* a read delivers the next n characters of the response body: decode, split,
\* onChunk for each text the loop finds
ReadBytes(t, n) ==
    LET chunk == SubSeq(WireStream, turns[t].offset + 1, turns[t].offset + n)
        texts == WireTexts(SplitLines(chunk))
        full == turns[t].fullResponse \o texts
        updated == IF texts = <<>> THEN messages ELSE OnChunk(messages, full)
    IN  /\ turns[t].pc = "reading"
        /\ turns[t].offset + n <= Len(WireStream)
        /\ turns' = [turns EXCEPT ![t].fullResponse = full,
                                  ![t].offset = turns[t].offset + n]
        /\ messages' = updated
        /\ messagesRef' = updated
        /\ chatStorage' = SaveEffect(updated, chatStorage)
        /\ afterClear' = IF texts = <<>> THEN afterClear ELSE NoteStreamStep
        /\ UNCHANGED <<input, isLoading, pendingImage, apiKeySet, pageVars, viewerVars>>

\* a read delivers the next valid event of the stream
ReadChunk(t) ==
    LET text == ResponseStream[Len(turns[t].fullResponse) + 1]
        full == turns[t].fullResponse \o <<text>>
        updated == OnChunk(messages, full)
    IN  /\ turns[t].pc = "reading"
        /\ Len(turns[t].fullResponse) < MaxChunks
        /\ turns' = [turns EXCEPT ![t].fullResponse = full,
                                  ![t].received =
                                        Append(turns[t].received,
                                               EventLine("text", text))]
        /\ messages' = updated
        /\ messagesRef' = updated
        /\ chatStorage' = SaveEffect(updated, chatStorage)
        /\ afterClear' = NoteStreamStep
        /\ UNCHANGED <<input, isLoading, pendingImage, apiKeySet, pageVars, viewerVars>>

\* reader.read() reports done
StreamEnd(t) ==
    /\ turns[t].pc = "reading"
    /\ FinishTurn(t, messages, "completed")

\* reader.read() throws: catch, onChunk("\nError: ...")
StreamError(t) ==
    /\ turns[t].pc = "reading"
    /\ FailTurn(t, "\nError: message")

\* ------------------------------------------------------------ chat: reload

\* the chat's part of a page reload: every pending handleSend is gone with the
\* old page, component state starts over, the load effect reads the durable
\* copy and the save effect writes it back when it is not empty
ReloadChatPart ==
    /\ messages' = LoadChat(chatStorage)
    /\ messagesRef' = LoadChat(chatStorage)
    /\ chatStorage' = SaveEffect(LoadChat(chatStorage), chatStorage)
    /\ input' = ""
    /\ isLoading' = FALSE
    /\ pendingImage' = NoImage
    /\ turns' = [t \in TurnIds |->
            IF InFlight(t) THEN EndedTurn("dead") ELSE turns[t]]
    /\ UNCHANGED <<apiKeySet, afterClear>>


\* ---------------------------------------------------------- page (toolbar)

\* ViewerPage.handleSelectionChange(newSelection)
handleSelectionChange(newSelection) == pageSelection' = newSelection

\* ViewerPage.handleClearSelection, the toolbar's close button
handleClearSelection ==
    /\ pageSelection # NoSelection
    /\ pageSelection' = NoSelection
    /\ UNCHANGED <<chatVars, viewerVars>>

\* ----------------------------------------------------------------- viewer

\* pointer positions relative to the page, as <<x, y>>
Points ==
    {<<0, 0>>, <<DragThreshold, DragThreshold + 1>>,
     <<DragThreshold + 1, DragThreshold>>,
     <<DragThreshold + 1, DragThreshold + 1>>}

\* the pages of the document
Pages == {1, 2}

\* window.getSelection()?.toString().trim() at a mouseup; "" when nothing is
\* selected
NativeTexts == {"", "The cat sat", "x = 5"}

\* selectionRect === null
NoDrag == [startX |-> 0, startY |-> 0, endX |-> 0, endY |-> 0, pageNum |-> 0]

Min(a, b) == IF a <= b THEN a ELSE b

Abs(a) == IF a >= 0 THEN a ELSE -a

\* The characters of the isMath regex that are not ASCII are written with
\* ASCII characters that the regex does not mention: "$" is the integral sign
\* (and stands for the other operator symbols of the first class), "&" is the
\* small delta and "%" the capital delta (for the Greek letters of the first
\* class), "@" is the superscript two (and stands for the superscript three).
LowerCase == "abcdefghijklmnopqrstuvwxyz"
UpperCase == "ABCDEFGHIJKLMNOPQRSTUVWXYZ"

\* a faulty canonicalization that compares characters as they are
\* (sensitivity of C24_Classifier)
CanonicalizeNone(c) == c

\* the classes of the regex, as written in it
SymbolClass == {"$", "=", "<", ">", "&"}
DigitClass == {"0", "1", "2", "3", "4", "5", "6", "7", "8", "9"}
MarkerClass == {"x", "@"}
LetterClass == {CharAt(LowerCase, i) : i \in 1..Len(LowerCase)}
OperatorClass == {"=", "+", "-", "*", "/", "^"}
AlnumClass == LetterClass \cup DigitClass

\* the upper case of the characters that have one
UpperCaseOf ==
    [c \in LetterClass \cup {"&"} |->
        IF c = "&" THEN "%"
        ELSE CharAt(UpperCase, CHOOSE i \in 1..Len(LowerCase) : CharAt(LowerCase, i) = c)]

\* the i flag: characters are compared by their upper case
Canonicalize(c) == IF c \in DOMAIN UpperCaseOf THEN UpperCaseOf[c] ELSE c

\* the members of a class under the i flag
Folded(class) == {Canonicalize(m) : m \in class}

SymbolClassI == Folded(SymbolClass)
DigitClassI == Folded(DigitClass)
MarkerClassI == Folded(MarkerClass)
LetterClassI == Folded(LetterClass)
OperatorClassI == Folded(OperatorClass)
AlnumClassI == Folded(AlnumClass)
WhitespaceClassI == Folded(WhitespaceClass)

\* [...] under the i flag, for a folded class
InClass(classI, c) == Canonicalize(c) \in classI

\* a greedy repetition of a class from position i: the position after it
RECURSIVE SkipClass(_, _, _)
SkipClass(class, text, i) ==
    IF i <= Len(text) /\ InClass(class, CharAt(text, i))
    THEN SkipClass(class, text, i + 1) ELSE i

\* [∫∑∏√±×÷=<>≤≥≠∞αβγδπ] at position i
MatchSymbolAt(text, i) == InClass(SymbolClassI, CharAt(text, i))

\* [0-9]+[x²³] at position i
MatchPowerAt(text, i) ==
    /\ InClass(DigitClassI, CharAt(text, i))
    /\ LET j == SkipClass(DigitClassI, text, i)
       IN  j <= Len(text) /\ InClass(MarkerClassI, CharAt(text, j))

\* [a-z]\s*[=+\-*/^]\s*[a-z0-9] at position i
MatchVariableAt(text, i) ==
    /\ InClass(LetterClassI, CharAt(text, i))
    /\ LET j == SkipClass(WhitespaceClassI, text, i + 1)
       IN  /\ j <= Len(text)
           /\ InClass(OperatorClassI, CharAt(text, j))
           /\ LET k == SkipClass(WhitespaceClassI, text, j + 1)
              IN  k <= Len(text) /\ InClass(AlnumClassI, CharAt(text, k))

\* the isMath test of handleTextSelection: the regex matches somewhere
IsMath(text) ==
    \E i \in 1..Len(text) :
        MatchSymbolAt(text, i) \/ MatchPowerAt(text, i) \/ MatchVariableAt(text, i)

\* handleTextSelection's newSelection
TextSelection(selectedText) ==
    [type |-> IF IsMath(selectedText) THEN "equation" ELSE "text",
     content |-> selectedText, pageNumber |-> 1,
     imageData |-> NoImage, rect |-> NoRect]

\* handleMouseUp: the normalized rectangle of the drag
DragRect(d) ==
    [x |-> Min(d.startX, d.endX), y |-> Min(d.startY, d.endY),
     width |-> Abs(d.endX - d.startX), height |-> Abs(d.endY - d.startY)]

\* handleMouseUp: width > 10 && height > 10
LargeEnough(r) == r.width > DragThreshold /\ r.height > DragThreshold

\* canvas.width / canvas.clientWidth and canvas.height / canvas.clientHeight,
\* in halves: 1, 1.5 and 2 device pixels per displayed pixel
CanvasRatios == [x : {2, 3, 4}, y : {2, 3, 4}]

\* Math.round of n halves
RoundHalves(n) == (n + 1) \div 2

\* handleMouseUp: the image drawn on the temporary canvas; the canvas is made
\* width x height, the ratios scale only the source rectangle of drawImage
ExtractImage(r, ratio) == [width |-> r.width, height |-> r.height]

\* handleMouseUp's newSelection
RegionSelection(d) ==
    LET r == DragRect(d)
    IN  [type |-> "region", content |-> "Region from Page",
         pageNumber |-> d.pageNum,
         imageData |-> ExtractImage(r, canvasRatio),
         rect |-> r]

\* handleMouseDown with Ctrl or the right button on a rendered page
handleMouseDown(p, pageNum) ==
    /\ pdfFile # "none"
    /\ isSelecting' = TRUE
    /\ selectionRect' = [startX |-> p[1], startY |-> p[2],
                         endX |-> p[1], endY |-> p[2], pageNum |-> pageNum]
    /\ UNCHANGED <<selection, annotations, annStorage, now, restored, chatVars, docVars,
                   pageVars>>

\* handleMouseMove
handleMouseMove(p) ==
    /\ isSelecting
    /\ selectionRect # NoDrag
    /\ selectionRect' = [selectionRect EXCEPT !.endX = p[1], !.endY = p[2]]
    /\ UNCHANGED <<selection, isSelecting, annotations, annStorage, now,
                   restored, chatVars, docVars, pageVars>>

\* handleMouseUp: the Selection it emits, or sel when it emits none
AfterMouseUp(sel, canvasReady) ==
    IF isSelecting /\ selectionRect # NoDrag /\ canvasReady
            /\ LargeEnough(DragRect(selectionRect))
    THEN RegionSelection(selectionRect)
    ELSE sel

\* handleTextSelection: the Selection it emits, or sel when it emits none
AfterTextSelection(sel, nativeText) ==
    IF nativeText # "" THEN TextSelection(nativeText) ELSE sel

\* a mouseup over the pages: the container's handleMouseUp, then the
\* document listener handleTextSelection on the same event
MouseUp(canvasReady, nativeText) ==
    /\ selection' = AfterTextSelection(AfterMouseUp(selection, canvasReady), nativeText)
    /\ handleSelectionChange(
            AfterTextSelection(AfterMouseUp(pageSelection, canvasReady), nativeText))
    /\ isSelecting' = FALSE
    /\ selectionRect' = IF isSelecting /\ selectionRect # NoDrag
                        THEN NoDrag ELSE selectionRect
    /\ UNCHANGED <<annotations, annStorage, now, restored, chatVars, docVars>>

\* an annotation record; one written without a rect carries NoRect; doc and
\* zoom are history, not fields of the record: the document open and the zoom
\* when it was written
Annotation(id, pageNumber, rect, status, note, content) ==
    [id |-> id, pageNumber |-> pageNumber, rect |-> rect, status |-> status,
     note |-> note, content |-> content, createdAt |-> id, doc |-> pdfFile,
     zoom |-> scale]

\* a.rect is truthy
HasRect(a) == a.rect # NoRect

\* a faulty restore that keeps every parsed record (sensitivity of
\* C6_RoundTrip)
RestoreAnnotationsUnfiltered(store) ==
    IF store.present THEN store.value ELSE <<>>

\* the load effect: parsed.filter(a => a.rect)
RestoreAnnotations(store) ==
    IF store.present THEN SelectSeq(store.value, HasRect) ELSE <<>>

\* the save effect: write the collection unless it is empty
SaveAnnotationsEffect(anns, store) ==
    IF Len(anns) > 0 THEN [present |-> TRUE, value |-> anns] ELSE store

\* quick-annotation buttons: Complete (as Pending and Incomplete, a status
\* without a note) and Note (with the prompt's non-empty answer)
AnnotationInputs == {<<"complete", "">>, <<"note", "n">>}

\* a faulty guard that asks only for a Selection (sensitivity of
\* C11_CreateWithoutRect)
CanAnnotateAny(sel) == sel # NoSelection

\* addAnnotation's guard: selection?.rect && selection.pageNumber
CanAnnotate(sel) == sel.rect # NoRect /\ sel.pageNumber # 0

\* addAnnotation(status, note); nothing happens when the guard fails
addAnnotation(status, note) ==
    LET newAnnotation ==
            Annotation(now, selection.pageNumber, selection.rect, status, note,
                       selection.content)
        updated == Append(annotations, newAnnotation)
    IN  IF CanAnnotate(selection)
        THEN /\ Len(annotations) < MaxAnnotations
             /\ annotations' = updated
             /\ annStorage' = SaveAnnotationsEffect(updated, annStorage)
             /\ selection' = NoSelection
             /\ handleSelectionChange(NoSelection)
             /\ restored' = "no"
             /\ UNCHANGED <<isSelecting, selectionRect, now, chatVars, docVars>>
        ELSE UNCHANGED vars

IdIsNot(id, a) == a.id # id

\* annotations.filter(a => a.id !== id)
WithoutId(anns, id) ==
    LET keep(a) == IdIsNot(id, a) IN SelectSeq(anns, keep)

\* a faulty delete that leaves the durable copy to the save effect
\* (sensitivity of C12_DeleteById)
deleteAnnotationEffectOnly(id) ==
    /\ annotations' = WithoutId(annotations, id)
    /\ annStorage' = SaveAnnotationsEffect(WithoutId(annotations, id), annStorage)
    /\ restored' = IF WithoutId(annotations, id) # annotations
                   THEN "deleted" ELSE "no"
    /\ UNCHANGED <<selection, isSelecting, selectionRect, now, chatVars, docVars,
                   pageVars>>

\* deleteAnnotation(id)
deleteAnnotation(id) ==
    LET updated == WithoutId(annotations, id)
    IN  /\ annotations' = updated
        /\ annStorage' = SaveAnnotationsEffect(updated,
                            [present |-> TRUE, value |-> updated])
        /\ restored' = IF WithoutId(annotations, id) # annotations
                   THEN "deleted" ELSE "no"
        /\ UNCHANGED <<selection, isSelecting, selectionRect, now, chatVars, docVars,
                       pageVars>>

\* toolbar buttons: Correct (as Wrong, without a note); Add Note
ToolbarInputs == {<<"correct", "">>, <<"review", "n">>}

RectLess(a) == ~HasRect(a)

\* SelectionToolbar.saveAnnotation(status, note): appends a record without a
\* rect to the blob under the same storage key
saveAnnotation(status, note) ==
    LET saved == IF annStorage.present THEN annStorage.value ELSE <<>>
        newAnnotation ==
            Annotation(now, pageSelection.pageNumber, NoRect, status, note,
                       pageSelection.content)
    IN  /\ pageSelection # NoSelection
        /\ Len(SelectSeq(saved, RectLess)) < MaxToolbarRecords
        /\ annStorage' = [present |-> TRUE, value |-> Append(saved, newAnnotation)]
        /\ UNCHANGED <<selection, isSelecting, selectionRect, annotations, now,
                       restored, chatVars, docVars, pageVars>>

\* the options of the filter dropdown
Filters == {"all", "complete", "incomplete", "pending", "note"}

\* the filter dropdown's onChange: setFilterStatus(e.target.value)
setFilterStatus(v) ==
    /\ pdfFile # "none"
    /\ filterStatus # v
    /\ filterStatus' = v
    /\ UNCHANGED <<selection, isSelecting, selectionRect, annotations,
                   annStorage, now, restored, pdfFile, pdfStorage, db, scale,
                   canvasRatio, crashed,
                   chatVars, pageVars>>

\* a faulty list that ignores the status filter (sensitivity of
\* C13_ListByPageAndStatus)
getPageAnnotationsAnyStatus(pageNum) ==
    LET keep(a) == a.pageNumber = pageNum
    IN  SelectSeq(annotations, keep)

\* getPageAnnotations(pageNum)
getPageAnnotations(pageNum) ==
    LET keep(a) ==
            IF a.pageNumber # pageNum THEN FALSE
            ELSE IF filterStatus = "all" THEN TRUE
            ELSE a.status = filterStatus
    IN  SelectSeq(annotations, keep)

\* the documents a user uploads
Documents == {"A", "B"}

\* clearPdf: the document is closed and removed from storage
clearPdf ==
    /\ pdfFile # "none"
    /\ pdfFile' = "none"
    /\ pdfStorage' = "none"
    /\ UNCHANGED <<selection, isSelecting, selectionRect, annotations,
                   annStorage, now, restored, filterStatus, db, scale, canvasRatio,
                   crashed,
                   chatVars,
                   pageVars>>

\* handleFileUpload / handleDrop on the upload screen, with the FileReader's
\* onload that stores the document
handleFileUpload(file) ==
    /\ pdfFile = "none"
    /\ pdfFile' = file
    /\ pdfStorage' = file
    /\ UNCHANGED <<selection, isSelecting, selectionRect, annotations,
                   annStorage, now, restored, filterStatus, db, scale, canvasRatio,
                   crashed,
                   chatVars,
                   pageVars>>

\* zoomIn
zoomIn ==
    /\ pdfFile # "none"
    /\ scale' = IF scale + ScaleStep < MaxScale THEN scale + ScaleStep ELSE MaxScale
    /\ scale' # scale
    /\ UNCHANGED <<selection, isSelecting, selectionRect, annotations, annStorage,
                   now, restored, filterStatus, pdfFile, pdfStorage, db, canvasRatio,
                   crashed,
                   chatVars,
                   pageVars>>

\* zoomOut
zoomOut ==
    /\ pdfFile # "none"
    /\ scale' = IF scale - ScaleStep > MinScale THEN scale - ScaleStep ELSE MinScale
    /\ scale' # scale
    /\ UNCHANGED <<selection, isSelecting, selectionRect, annotations, annStorage,
                   now, restored, filterStatus, pdfFile, pdfStorage, db, canvasRatio,
                   crashed,
                   chatVars,
                   pageVars>>

\* the style of an annotation's overlay on its page: left, top, width, height
OverlayStyle(ann) ==
    [left |-> ann.rect.x, top |-> ann.rect.y,
     width |-> ann.rect.width, height |-> ann.rect.height]

\* the page canvas is rendered again at another device pixel ratio
RenderCanvas(ratio) ==
    /\ pdfFile # "none"
    /\ canvasRatio # ratio
    /\ canvasRatio' = ratio
    /\ UNCHANGED <<selection, isSelecting, selectionRect, annotations, annStorage,
                   now, restored, filterStatus, pdfFile, pdfStorage, db, scale,
                   crashed, chatVars, pageVars>>

\* the characters a natively selected text is made of
TextChars == {"a", "x", "5", " ", "+", "=", "@", "&", "%"}

\* the texts of n characters
RECURSIVE TextsOfLength(_)
TextsOfLength(n) ==
    IF n = 0 THEN {""}
    ELSE {c \o t : c \in TextChars, t \in TextsOfLength(n - 1)}

\* window.getSelection()?.toString() before it is trimmed
RawTexts == UNION {TextsOfLength(n) : n \in 0..MaxText}

\* addAnnotation when the save effect's localStorage.setItem throws: the
\* state is committed, the effect's error is caught by no one and React
\* unmounts the tree
addAnnotationThrows(status, note) ==
    LET newAnnotation ==
            Annotation(now, selection.pageNumber, selection.rect, status, note,
                       selection.content)
    IN  /\ CanAnnotate(selection)
        /\ Len(annotations) < MaxAnnotations
        /\ annotations' = Append(annotations, newAnnotation)
        /\ selection' = NoSelection
        /\ handleSelectionChange(NoSelection)
        /\ restored' = "no"
        /\ crashed' = TRUE
        /\ UNCHANGED <<isSelecting, selectionRect, annStorage, now, chatVars,
                       filterStatus, pdfFile, pdfStorage, db, scale, canvasRatio>>

\* deleteAnnotation when localStorage.setItem throws: the handler's own write
\* throws after setAnnotations was queued; the save effect then throws as
\* well unless the collection became empty
deleteAnnotationThrows(id) ==
    /\ annotations' = WithoutId(annotations, id)
    /\ restored' = IF WithoutId(annotations, id) # annotations THEN "deleted" ELSE "no"
    /\ crashed' = (Len(WithoutId(annotations, id)) > 0)
    /\ UNCHANGED <<selection, isSelecting, selectionRect, annStorage, now, chatVars,
                   filterStatus, pdfFile, pdfStorage, db, scale, canvasRatio,
                   pageVars>>

\* handleManualSend when the save effect's localStorage.setItem throws: the
\* messages are committed and the request goes out, the effect has set
\* messagesRef when its write throws, and React unmounts the tree
handleManualSendThrows ==
    LET t == NextTurn
        text == Trim(input)
        appended == messages \o <<UserMessage(text, pendingImage, t),
                                  AssistantPlaceholder(t)>>
    IN  /\ ~isLoading
        /\ apiKeySet
        /\ text # ""
        /\ CanStartTurn
        /\ messages' = appended
        /\ messagesRef' = appended
        /\ input' = ""
        /\ isLoading' = TRUE
        /\ pendingImage' = NoImage
        /\ turns' = [turns EXCEPT ![t] =
                [pc |-> "fetching", fullResponse |-> <<>>,
                 request |-> BuildRequest(text, pendingImage,
                                          CommittedHistory(messagesRef)),
                 received |-> <<>>, offset |-> 0]]
        /\ afterClear' = "no"
        /\ crashed' = TRUE
        /\ UNCHANGED <<chatStorage, apiKeySet, pageVars, selection, isSelecting,
                       selectionRect, annotations, annStorage, now, restored,
                       filterStatus, pdfFile, pdfStorage, db, scale, canvasRatio>>

\* the clock advances
Tick ==
    /\ now < MaxClock
    /\ now' = now + 1
    /\ UNCHANGED <<selection, isSelecting, selectionRect, annotations,
                   annStorage, restored, chatVars, docVars, pageVars>>

\* the viewer's part of a page reload: state starts over, the load effect
\* restores the annotations and the save effect writes them back
ReloadViewerPart ==
    /\ selection' = NoSelection
    /\ isSelecting' = FALSE
    /\ selectionRect' = NoDrag
    /\ annotations' = RestoreAnnotations(annStorage)
    /\ annStorage' = SaveAnnotationsEffect(RestoreAnnotations(annStorage), annStorage)
    /\ restored' =
            IF ~annStorage.present THEN "no"
            ELSE IF Len(RestoreAnnotations(annStorage)) < Len(annStorage.value)
            THEN "dropped" ELSE "kept"
    /\ filterStatus' = "all"
    /\ pdfFile' = pdfStorage
    /\ scale' = InitialScale
    /\ crashed' = FALSE
    /\ UNCHANGED <<now, pdfStorage, db, canvasRatio>>

\* ------------------------------------------------------- document registry

\* ids the registry can be asked about
PdfIds == 1..MaxPdfs
DbAnnotationIds == 1..MaxDbAnnotations

\* the statuses the PATCH route accepts
PdfStatuses == {"none", "complete"}

\* updateStatus on one record: only the record found by id changes
UpdateStatusOf(pdf, id, status) ==
    IF pdf.id = id THEN [pdf EXCEPT !.status = status] ELSE pdf

\* pdfOps.delete on a database value: the document and its annotations go
DeleteCascade(d, id) ==
    [d EXCEPT !.pdfs = SelectSeq(d.pdfs, LAMBDA p : p.id # id),
              !.annotations = SelectSeq(d.annotations, LAMBDA a : a.pdf_id # id)]

\* pdfOps.create: the next id is taken and the document is appended
pdfOps_create ==
    /\ db.nextPdfId <= MaxPdfs
    /\ db' = [db EXCEPT !.pdfs = Append(db.pdfs, [id |-> db.nextPdfId, status |-> "none"]),
                        !.nextPdfId = db.nextPdfId + 1]
    /\ UNCHANGED <<chatVars, pageVars, selection, isSelecting, selectionRect, annotations,
                   annStorage, now, restored, filterStatus, pdfFile, pdfStorage,
                   scale, canvasRatio, crashed>>

\* pdfOps.delete, reached from DELETE /api/pdfs/[id]
pdfOps_delete(id) ==
    /\ db' = DeleteCascade(db, id)
    /\ db' # db
    /\ UNCHANGED <<chatVars, pageVars, selection, isSelecting, selectionRect, annotations,
                   annStorage, now, restored, filterStatus, pdfFile, pdfStorage,
                   scale, canvasRatio, crashed>>

\* pdfOps.updateStatus, reached from PATCH /api/pdfs/[id]
pdfOps_updateStatus(id, status) ==
    /\ db' = [db EXCEPT !.pdfs = [k \in 1..Len(db.pdfs) |->
                                    UpdateStatusOf(db.pdfs[k], id, status)]]
    /\ db' # db
    /\ UNCHANGED <<chatVars, pageVars, selection, isSelecting, selectionRect, annotations,
                   annStorage, now, restored, filterStatus, pdfFile, pdfStorage,
                   scale, canvasRatio, crashed>>

\* annotationOps.create: the next id is taken and the annotation is appended
\* for whatever pdfId is given
annotationOps_create(pdfId) ==
    /\ db.nextAnnotationId <= MaxDbAnnotations
    /\ db' = [db EXCEPT !.annotations = Append(db.annotations,
                                [id |-> db.nextAnnotationId, pdf_id |-> pdfId]),
                        !.nextAnnotationId = db.nextAnnotationId + 1]
    /\ UNCHANGED <<chatVars, pageVars, selection, isSelecting, selectionRect, annotations,
                   annStorage, now, restored, filterStatus, pdfFile, pdfStorage,
                   scale, canvasRatio, crashed>>

\* annotationOps.delete
annotationOps_delete(id) ==
    /\ db' = [db EXCEPT !.annotations = SelectSeq(db.annotations, LAMBDA a : a.id # id)]
    /\ db' # db
    /\ UNCHANGED <<chatVars, pageVars, selection, isSelecting, selectionRect, annotations,
                   annStorage, now, restored, filterStatus, pdfFile, pdfStorage,
                   scale, canvasRatio, crashed>>

\* ---------------------------------------------------------- specifications

\* the durable chat copy left by earlier sessions: n committed messages
StoredMessage(i) ==
    [role |-> IF i % 2 = 1 THEN "user" ELSE "assistant",
     content |-> <<ToString(i)>>, imageData |-> NoImage,
     isStreaming |-> FALSE, turn |-> 0]

StoredHistory(n) == [i \in 1..n |-> StoredMessage(i)]

InitChat ==
    /\ chatStorage \in
            {NoItem} \cup {[present |-> TRUE, value |-> StoredHistory(n)] :
                           n \in 1..MaxStored}
    /\ messages = LoadChat(chatStorage)
    /\ messagesRef = messages
    /\ input = ""
    /\ isLoading = FALSE
    /\ pendingImage = NoImage
    /\ apiKeySet \in BOOLEAN
    /\ turns = [t \in TurnIds |-> IdleTurn]
    /\ afterClear = "no"

InitViewer ==
    /\ selection = NoSelection
    /\ isSelecting = FALSE
    /\ selectionRect = NoDrag
    /\ annotations = <<>>
    /\ annStorage = NoItem
    /\ now = 0
    /\ restored = "no"
    /\ filterStatus = "all"
    /\ pdfStorage = "A"
    /\ pdfFile = pdfStorage
    /\ db = EmptyDb
    /\ scale = InitialScale
    /\ canvasRatio = [x |-> 2, y |-> 2]
    /\ crashed = FALSE

Init ==
    /\ InitChat
    /\ InitViewer
    /\ pageSelection = NoSelection

\* a page reload
Reload ==
    /\ ReloadChatPart
    /\ ReloadViewerPart
    /\ pageSelection' = NoSelection

\* selections PDFViewer hands to onSelectionChange: a text one, a region one
EmittedSelections ==
    {TextSelection("The cat sat"),
     RegionSelection([startX |-> 0, startY |-> 0,
                      endX |-> DragThreshold + 1,
                      endY |-> DragThreshold + 1, pageNum |-> 1])}

\* the chat with the page: the viewer is seen only through the selections it
\* emits
SelectionEmitted ==
    \E s \in EmittedSelections :
        /\ pageSelection # s
        /\ handleSelectionChange(s)
        /\ UNCHANGED <<chatVars, viewerVars>>

ReloadChat ==
    /\ ReloadChatPart
    /\ pageSelection' = NoSelection
    /\ UNCHANGED viewerVars

StreamStep ==
    \E t \in TurnIds :
        \/ FetchOk(t)
        \/ FetchFail(t)
        \/ ResponseNotOk(t)
        \/ NoResponseStream(t)
        \/ ReadChunk(t)
        \/ StreamEnd(t)
        \/ StreamError(t)

ChatStep ==
    \/ \E v \in Inputs : TypeInput(v)
    \/ handleManualSend
    \/ handleToolbarAction
    \/ handleClear
    \/ RemovePendingImage
    \/ StreamStep

NextChat ==
    \/ ChatStep
    \/ SelectionEmitted
    \/ handleClearSelection
    \/ ReloadChat

\* the chat opened on an empty durable copy
InitChatOnly ==
    /\ Init
    /\ chatStorage = NoItem

SpecChat == InitChatOnly /\ [][NextChat]_vars

\* the history window: the chat opened on every stored history; turns that
\* end without a fragment
WindowSelection ==
    /\ pageSelection = NoSelection
    /\ handleSelectionChange(
            RegionSelection([startX |-> 0, startY |-> 0,
                             endX |-> DragThreshold + 1,
                             endY |-> DragThreshold + 1, pageNum |-> 1]))
    /\ UNCHANGED <<chatVars, viewerVars>>

NextWindow ==
    \/ TypeInput(" q")
    \/ handleManualSend
    \/ handleToolbarAction
    \/ \E t \in TurnIds : FetchOk(t) \/ StreamEnd(t)
    \/ WindowSelection

InitWindow ==
    /\ Init
    /\ apiKeySet

SpecWindow == InitWindow /\ [][NextWindow]_vars

\* the durable chat copy: turns that stream, end, fail, overlap, are cleared
\* and reloaded, with the key configured
NextPersist ==
    \/ TypeInput(" q")
    \/ handleManualSend
    \/ handleToolbarAction
    \/ handleClear
    \/ \E t \in TurnIds : FetchOk(t) \/ ReadChunk(t) \/ StreamEnd(t) \/ StreamError(t)
    \/ WindowSelection
    \/ ReloadChat

InitPersist ==
    /\ Init
    /\ chatStorage = NoItem
    /\ apiKeySet

SpecPersist == InitPersist /\ [][NextPersist]_vars

ReloadViewer ==
    /\ ReloadViewerPart
    /\ pageSelection' = NoSelection
    /\ UNCHANGED chatVars

\* the viewer alone: the chat starts empty and stays idle
InitViewerOnly ==
    /\ Init
    /\ chatStorage = NoItem
    /\ apiKeySet

CaptureStep ==
    \/ \E p \in Points, n \in Pages : handleMouseDown(p, n)
    \/ \E p \in Points : handleMouseMove(p)
    \/ \E canvasReady \in BOOLEAN, nativeText \in NativeTexts :
            MouseUp(canvasReady, nativeText)

StoreStep ==
    \/ \E i \in AnnotationInputs : addAnnotation(i[1], i[2])
    \/ \E i \in 1..Len(annotations) : deleteAnnotation(annotations[i].id)
    \/ \E i \in ToolbarInputs : saveAnnotation(i[1], i[2])
    \/ Tick

ViewerStep ==
    \/ CaptureStep
    \/ StoreStep

\* region capture and the selection's life: every pointer position, the
\* annotation collection as it is
NextCapture ==
    \/ CaptureStep
    \/ handleClearSelection
    \/ ReloadViewer

SpecCapture == InitViewerOnly /\ [][NextCapture]_vars

\* the annotation store: selections come from one full-size drag per page,
\* the store's buttons are clicked between drags
StoreDrag ==
    \/ \E n \in Pages : ~isSelecting /\ handleMouseDown(<<0, 0>>, n)
    \/ handleMouseMove(<<DragThreshold + 1, DragThreshold + 1>>)
    \/ isSelecting /\ MouseUp(TRUE, "")

NextStore ==
    \/ StoreDrag
    \/ ~isSelecting /\ StoreStep
    \/ ~isSelecting /\ ReloadViewer

SpecStore == InitViewerOnly /\ [][NextStore]_vars

\* creating annotations: full-size drags and plain clicks, with or without
\* text natively selected
CreateDrag ==
    \/ \E n \in Pages : ~isSelecting /\ handleMouseDown(<<0, 0>>, n)
    \/ handleMouseMove(<<DragThreshold + 1, DragThreshold + 1>>)
    \/ \E nativeText \in {"", "The cat sat"} : MouseUp(TRUE, nativeText)

NextCreate ==
    \/ CreateDrag
    \/ \E i \in AnnotationInputs : addAnnotation(i[1], i[2])
    \/ Tick
    \/ ReloadViewer

SpecCreate == InitViewerOnly /\ [][NextCreate]_vars

\* ids a delete can be asked for: those Date.now() can have produced
AnnotationIds == 0..MaxClock

\* deleting: the annotation store with delete(id) for every id, present or not
NextDelete ==
    \/ StoreDrag
    \/ ~isSelecting /\ \E i \in AnnotationInputs : addAnnotation(i[1], i[2])
    \/ ~isSelecting /\ \E id \in AnnotationIds : deleteAnnotation(id)
    \/ ~isSelecting /\ saveAnnotation("correct", "")
    \/ ~isSelecting /\ Tick
    \/ ~isSelecting /\ ReloadViewer

SpecDelete == InitViewerOnly /\ [][NextDelete]_vars

\* listing: annotations are created and the filter is changed
NextList ==
    \/ StoreDrag
    \/ ~isSelecting /\ \E i \in AnnotationInputs : addAnnotation(i[1], i[2])
    \/ ~isSelecting /\ \E v \in Filters : setFilterStatus(v)
    \/ ~isSelecting /\ ReloadViewer

SpecList == InitViewerOnly /\ [][NextList]_vars

\* decoding: one turn after the other, the stream read line by line
NextDecode ==
    \/ TypeInput(" q")
    \/ handleManualSend
    \/ \E t \in TurnIds : FetchOk(t) \/ StreamEnd(t) \/ StreamError(t)
    \/ \E t \in TurnIds, kinds \in Reads : ReadEvents(t, kinds)

SpecDecode == InitPersist /\ [][NextDecode]_vars

\* one session of the chat, never reloaded, under a transport that answers
\* every request and ends or fails every stream
NextLive ==
    \/ TypeInput(" q")
    \/ handleManualSend
    \/ handleToolbarAction
    \/ handleClear
    \/ WindowSelection
    \/ \E t \in TurnIds :
            FetchOk(t) \/ FetchFail(t) \/ ReadChunk(t) \/ StreamEnd(t) \/ StreamError(t)

\* fetch settles; reader.read() eventually reports done or throws
TransportEnds ==
    \A t \in TurnIds :
        /\ WF_vars(FetchOk(t) \/ FetchFail(t))
        /\ WF_vars(StreamEnd(t) \/ StreamError(t))

SpecLive == InitPersist /\ [][NextLive]_vars /\ TransportEnds

\* documents: annotations are created and deleted while documents are closed
\* and uploaded
NextDocs ==
    \/ StoreDrag
    \/ ~isSelecting /\ addAnnotation("complete", "")
    \/ ~isSelecting /\ \E i \in 1..Len(annotations) : deleteAnnotation(annotations[i].id)
    \/ ~isSelecting /\ clearPdf
    \/ ~isSelecting /\ \E file \in Documents : handleFileUpload(file)
    \/ ~isSelecting /\ Tick
    \/ ~isSelecting /\ ReloadViewer

SpecDocs == InitViewerOnly /\ [][NextDocs]_vars

\* the registry: documents and annotations are created, updated and deleted
NextRegistry ==
    \/ pdfOps_create
    \/ \E id \in PdfIds : pdfOps_delete(id)
    \/ \E id \in PdfIds, status \in PdfStatuses : pdfOps_updateStatus(id, status)
    \/ \E pdfId \in PdfIds : annotationOps_create(pdfId)
    \/ \E id \in DbAnnotationIds : annotationOps_delete(id)

SpecRegistry == InitViewerOnly /\ [][NextRegistry]_vars

\* the life of a selection: it is made by a drag, then cleared, sent to the
\* chat or annotated
NextLife ==
    \/ StoreDrag
    \/ ~isSelecting /\ handleClearSelection
    \/ ~isSelecting /\ handleToolbarAction
    \/ ~isSelecting /\ addAnnotation("complete", "")
    \/ \E t \in TurnIds : FetchOk(t) \/ StreamEnd(t)

SpecLife == InitViewerOnly /\ [][NextLife]_vars

\* zooming: one annotation is made on a region captured at the current zoom,
\* and the zoom changes while no Selection is current
NextZoom ==
    \/ StoreDrag
    \/ ~isSelecting /\ annotations = <<>> /\ addAnnotation("complete", "")
    \/ ~isSelecting /\ selection = NoSelection /\ zoomIn
    \/ ~isSelecting /\ selection = NoSelection /\ zoomOut
    \/ ~isSelecting /\ ReloadViewer

SpecZoom == InitViewerOnly /\ [][NextZoom]_vars

\* region images: drags between every two pointer positions, captured on a
\* canvas of every ratio
NextImage ==
    \/ \E p \in Points, n \in Pages : ~isSelecting /\ handleMouseDown(p, n)
    \/ \E p \in Points : handleMouseMove(p)
    \/ isSelecting /\ MouseUp(TRUE, "")
    \/ ~isSelecting /\ \E ratio \in CanvasRatios : RenderCanvas(ratio)

SpecImage == InitViewerOnly /\ [][NextImage]_vars

\* classifying: a mouseup without a drag, on a native selection of every text,
\* while no Selection is current; the page is reloaded
NextClassify ==
    \/ ~isSelecting /\ selection = NoSelection
            /\ \E raw \in RawTexts : MouseUp(TRUE, Trim(raw))
    \/ ReloadViewer

SpecClassify == InitViewerOnly /\ [][NextClassify]_vars

\* storage that refuses writes: annotations are created and deleted and
\* messages are sent while localStorage.setItem works or throws; nothing
\* happens in an unmounted tree until the page is reloaded
NextQuota ==
    \/ ~crashed /\ StoreDrag
    \/ ~crashed /\ ~isSelecting /\ addAnnotation("complete", "")
    \/ ~crashed /\ ~isSelecting /\ addAnnotationThrows("complete", "")
    \/ ~crashed /\ ~isSelecting
            /\ \E i \in 1..Len(annotations) : deleteAnnotation(annotations[i].id)
    \/ ~crashed /\ ~isSelecting
            /\ \E i \in 1..Len(annotations) : deleteAnnotationThrows(annotations[i].id)
    \/ ~crashed /\ ~isSelecting /\ Tick
    \/ ~crashed /\ ~isSelecting /\ TypeInput(" q")
    \/ ~crashed /\ ~isSelecting /\ handleManualSend
    \/ ~crashed /\ ~isSelecting /\ handleManualSendThrows
    \/ ~crashed /\ ~isSelecting /\ \E t \in TurnIds : FetchOk(t) \/ StreamEnd(t)
    \/ ~isSelecting /\ Reload

SpecQuota == InitViewerOnly /\ [][NextQuota]_vars

\* the transport: one turn after the other, the response body delivered in
\* reads of every size, the stream ended when the body was delivered
NextWire ==
    \/ TypeInput(" q")
    \/ handleManualSend
    \/ \E t \in TurnIds : FetchOk(t)
    \/ \E t \in TurnIds, n \in 1..Len(WireStream) : ReadBytes(t, n)
    \/ \E t \in TurnIds : turns[t].offset = Len(WireStream) /\ StreamEnd(t)

SpecWire == InitPersist /\ [][NextWire]_vars

Next ==
    \/ ChatStep
    \/ ViewerStep
    \/ handleClearSelection
    \/ Reload

Spec == Init /\ [][Next]_vars

\* ------------------------------------------------------------------ claims

Last(s) == s[Len(s)]

\* the messages of s that turn t appended with the given role
OfTurn(s, t, role) ==
    {i \in 1..Len(s) : s[i].turn = t /\ s[i].role = role}

\* a step of turn t's stream consumer: a chunk, the completion or a failure
StreamStepOf(t) ==
    /\ InFlight(t)
    /\ turns'[t] # turns[t]
    /\ turns'[t].pc # "dead"

ErrorTexts ==
    {"\nError: message", "Error: status", "Error: No response stream",
     "Error: Please set NEXT_PUBLIC_OPENROUTER_API_KEY"}

\* C1: in every reachable state at most one message has isStreaming = true,
\* and a message that has it is the last element of the sequence.
C1_StreamingOnlyLast ==
    \A i \in 1..Len(messages) : messages[i].isStreaming => i = Len(messages)

\* C2: when the stream of a turn delivered chunks c1..ck and then ends
\* normally, the turn has appended exactly one User and one Assistant message
\* and that Assistant message (while the turn's messages have not been
\* cleared) has content c1 + ... + ck and isStreaming = false.
C2_CompletedTurnContent ==
    [][\A t \in TurnIds :
        (/\ turns[t].pc = "reading"
         /\ turns'[t].pc = "completed"
         /\ OfTurn(messages, t, "assistant") # {})
        => /\ Cardinality(OfTurn(messages', t, "user")) = 1
           /\ Cardinality(OfTurn(messages', t, "assistant")) = 1
           /\ \A i \in OfTurn(messages', t, "assistant") :
                /\ messages'[i].content = turns[t].fullResponse
                /\ ~messages'[i].isStreaming]_vars

\* C3: the request of a send carries, in order, exactly the last min(10, n) of
\* the n committed messages that existed before the send, then the new user
\* turn; it never holds more than 11 messages.
C3_RequestWindow ==
    [][\A t \in TurnIds :
        (turns[t].pc = "idle" /\ turns'[t].pc = "fetching")
        => LET committed == SelectSeq(messages, NotStreaming)
               n == Len(committed)
               k == IF n < HistoryWindow THEN n ELSE HistoryWindow
               req == turns'[t].request
               new == messages'[Len(messages) + 1]
           IN  /\ Len(req) = k + 1
               /\ Len(req) <= HistoryWindow + 1
               /\ \A j \in 1..k :
                    req[j] = [role |-> committed[n - k + j].role,
                              content |-> committed[n - k + j].content,
                              image |-> committed[n - k + j].imageData]
               /\ new.role = "user"
               /\ req[k + 1] = [role |-> "user", content |-> new.content,
                                image |-> new.imageData]]_vars

\* a send whose request was cut to the window: 11 or more committed messages
\* existed before it
C3_Witness ==
    \E t \in TurnIds :
        /\ turns[t].pc = "fetching"
        /\ Len(turns[t].request) = HistoryWindow + 1
        /\ Len(SelectSeq(messages, NotStreaming)) > HistoryWindow + 1

\* C4: a transport failure during a turn leaves exactly one Assistant message
\* for that turn (while the turn's messages have not been cleared), with
\* isStreaming = false and non-empty content describing the error, and
\* afterwards isLoading is false.
C4_FailedTurn ==
    [][\A t \in TurnIds :
        (/\ InFlight(t)
         /\ turns'[t].pc = "failed"
         /\ OfTurn(messages, t, "assistant") # {})
        => /\ Cardinality(OfTurn(messages', t, "assistant")) = 1
           /\ \A i \in OfTurn(messages', t, "assistant") :
                /\ ~messages'[i].isStreaming
                /\ messages'[i].content # <<>>
                /\ Last(messages'[i].content) \in ErrorTexts
           /\ ~isLoading']_vars

\* C5: after clear() the in-memory message list is empty and the durable copy
\* is erased, and they stay so until the next send, also across the chunks and
\* the completion of a stream that was in flight and across a reload.
C5_ClearedStaysEmpty ==
    afterClear # "no" =>
        /\ messages = <<>>
        /\ ~chatStorage.present
        /\ LoadChat(chatStorage) = <<>>

\* a chunk or a completion arrived after the clear, before any new send
C5_Witness == afterClear = "streamed"

\* C8: while isLoading is true no UI path starts another handleSend.
C8_NoSendWhileLoading ==
    [][isLoading =>
        \A t \in TurnIds : turns[t].pc = "idle" => turns'[t].pc = "idle"]_vars

\* C9: every chunk, completion or failure step of turn T's stream changes only
\* the placeholder Assistant message that turn T appended.
C9_OnlyOwnPlaceholder ==
    [][\A t \in TurnIds :
        StreamStepOf(t)
        => /\ Len(messages') = Len(messages)
           /\ \A i \in 1..Len(messages) :
                (messages[i].turn # t \/ messages[i].role # "assistant")
                    => messages'[i] = messages[i]]_vars

C6_HasRectField(a) == a.rect # NoRect

\* C6: a reload restores exactly the records of the durable annotation blob
\* that have a rect, in order and with their fields, and these are the
\* annotations the store holds: every created annotation comes back, every
\* record without a rect is discarded.
C6_RoundTrip ==
    LET stored == IF annStorage.present THEN annStorage.value ELSE <<>>
    IN  /\ annotations = SelectSeq(stored, C6_HasRectField)
        /\ \A i \in 1..Len(annotations) : annotations[i].rect # NoRect

\* two different annotations were created, a record without a rect was in the
\* blob, and the reload's restore kept the two and dropped that record
C6_Witness ==
    /\ restored = "dropped"
    /\ Len(annotations) = 2
    /\ annotations[1] # annotations[2]

\* C7: a pointer-up that ends a region drag with width <= 10 or height <= 10
\* emits no Selection (the viewer's and the page's Selection are unchanged)
\* and resets the drag; a Selection is emitted only when width > 10 and
\* height > 10, and then it is the region with x = min(x1, x2),
\* y = min(y1, y2), width = |x2 - x1|, height = |y2 - y1| on the drag's page.
C7_RegionPointerUp ==
    [][(/\ isSelecting
        /\ selectionRect # NoDrag
        /\ \E canvasReady \in BOOLEAN, nativeText \in NativeTexts :
                MouseUp(canvasReady, nativeText))
        => LET d == selectionRect
               w == IF d.endX >= d.startX THEN d.endX - d.startX
                    ELSE d.startX - d.endX
               h == IF d.endY >= d.startY THEN d.endY - d.startY
                    ELSE d.startY - d.endY
               x == IF d.startX <= d.endX THEN d.startX ELSE d.endX
               y == IF d.startY <= d.endY THEN d.startY ELSE d.endY
               emitted == selection' # selection \/ pageSelection' # pageSelection
           IN  /\ ~isSelecting'
               /\ selectionRect' = NoDrag
               /\ (w <= 10 \/ h <= 10) => ~emitted
               /\ emitted =>
                    /\ w > 10 /\ h > 10
                    /\ selection'.rect = [x |-> x, y |-> y, width |-> w, height |-> h]
                    /\ selection'.pageNumber = d.pageNum
                    /\ pageSelection' = selection']_vars

\* C11: create is a no-op when the current Selection has no rect or there is
\* no Selection: the annotation collection, the durable annotation copy and
\* the current Selection (the viewer's and the page's) are unchanged.
C11_CreateWithoutRect ==
    [][\A i \in AnnotationInputs :
        (selection.rect = NoRect /\ addAnnotation(i[1], i[2]))
        => UNCHANGED <<annotations, annStorage, selection, pageSelection>>]_vars

\* a text selection is current while the collection and its durable copy hold
\* an annotation: create is enabled there and changes nothing
C11_Witness ==
    /\ selection.type = "text"
    /\ selection.rect = NoRect
    /\ Len(annotations) > 0
    /\ annStorage.present
    /\ \A i \in AnnotationInputs : ENABLED addAnnotation(i[1], i[2])

\* C12: delete(id) removes the annotation with that id from the in-memory
\* collection and from the durable copy (a reload restores the collection as
\* the delete left it, also when it is empty), leaves every other annotation
\* and their order unchanged, and leaves the collection unchanged when no
\* annotation has that id.
C12_DeleteById ==
    [][\A id \in AnnotationIds :
        deleteAnnotation(id)
        => LET Other(a) == a.id # id
               hit == {i \in 1..Len(annotations) : annotations[i].id = id}
           IN  /\ annotations' = SelectSeq(annotations, Other)
               /\ hit = {} => annotations' = annotations
               /\ annStorage'.present
               /\ RestoreAnnotations(annStorage') = annotations']_vars

\* the last remaining annotation was deleted: the collection is empty and the
\* durable copy holds an empty collection
C12_Witness ==
    /\ restored = "deleted"
    /\ annotations = <<>>
    /\ annStorage = [present |-> TRUE, value |-> <<>>]

\* C13: list(pageNumber, statusFilter) returns exactly the annotations on the
\* given page whose status equals the filter (all of the page's when the
\* filter is All), in insertion order: none that does not match, all that do.
C13_ListByPageAndStatus ==
    \A p \in Pages :
        LET matching ==
                {i \in 1..Len(annotations) :
                    /\ annotations[i].pageNumber = p
                    /\ (filterStatus = "all" \/ annotations[i].status = filterStatus)}
            nth(k) == CHOOSE i \in matching :
                            Cardinality({j \in matching : j < i}) = k - 1
            listed == getPageAnnotations(p)
        IN  /\ Len(listed) = Cardinality(matching)
            /\ \A k \in 1..Len(listed) : listed[k] = annotations[nth(k)]

\* two annotations on one page, the filter keeps the second and omits the first
C13_Witness ==
    /\ Len(annotations) = 2
    /\ annotations[1].pageNumber = annotations[2].pageNumber
    /\ annotations[1].status # filterStatus
    /\ annotations[2].status = filterStatus
    /\ getPageAnnotations(annotations[2].pageNumber) = <<annotations[2]>>

\* C14: a malformed event of the response stream is skipped and never aborts
\* the stream: a read adds to the Assistant content exactly the fragments of
\* its valid events, in order (also of those that follow a malformed one),
\* and the turn goes on reading. A read is a step in which a reading turn
\* receives lines.
C14_MalformedSkipped ==
    [][\A t \in TurnIds :
        (/\ turns[t].pc = "reading"
         /\ Len(turns'[t].received) > Len(turns[t].received))
        => LET got == SubSeq(turns'[t].received, Len(turns[t].received) + 1,
                             Len(turns'[t].received))
               valid == {i \in 1..Len(got) :
                            got[i].data /\ got[i].payload = "text"}
               nth(k) == CHOOSE i \in valid :
                            Cardinality({j \in valid : j < i}) = k - 1
               added == [k \in 1..Cardinality(valid) |-> got[nth(k)].text]
           IN  /\ turns'[t].pc = "reading"
               /\ isLoading' = isLoading
               /\ turns'[t].fullResponse = turns[t].fullResponse \o added
               /\ Len(messages') = Len(messages)
               /\ (messages # <<>> /\ Last(messages).turn = t)
                    => Last(messages').content = turns'[t].fullResponse]_vars

\* a stream delivered a valid event, a malformed one and a valid one: the
\* placeholder holds the two fragments and is still streaming
C14_Witness ==
    \E t \in TurnIds :
        /\ turns[t].pc = "reading"
        /\ Len(turns[t].received) = 3
        /\ turns[t].received[1].payload = "text"
        /\ turns[t].received[2].payload \in {"bad", "null"}
        /\ turns[t].received[3].payload = "text"
        /\ messages # <<>>
        /\ Last(messages).content = <<ResponseStream[1], ResponseStream[2]>>
        /\ Last(messages).isStreaming

\* the turn's phase in the order Idle, AwaitingFirstToken, Streaming,
\* Completed or Failed
C15_Phase(turn) ==
    IF turn.pc = "idle" THEN 0
    ELSE IF turn.pc = "fetching" THEN 1
    ELSE IF turn.pc = "reading" /\ turn.fullResponse = <<>> THEN 1
    ELSE IF turn.pc = "reading" THEN 2
    ELSE 3

\* C15: each turn follows Idle -> AwaitingFirstToken -> Streaming ->
\* Completed or Failed and never moves backwards; when the transport ends or
\* fails every stream, every send reaches Completed or Failed, and at that
\* point its placeholder has isStreaming = false and isLoading is false.
C15_TurnLifecycle ==
    /\ [][\A t \in TurnIds : C15_Phase(turns'[t]) >= C15_Phase(turns[t])]_vars
    /\ [][\A t \in TurnIds :
            (/\ turns[t].pc \notin {"completed", "failed"}
             /\ turns'[t].pc \in {"completed", "failed"})
            => /\ ~isLoading'
               /\ \A i \in OfTurn(messages', t, "assistant") :
                        ~messages'[i].isStreaming]_vars
    /\ \A t \in TurnIds :
            (turns[t].pc = "fetching") ~> (turns[t].pc \in {"completed", "failed"})

\* C16: on a transport failure at any point of a turn the placeholder's
\* content is replaced by the error string: after the failure it is the error
\* text only, whatever chunks had been appended before.
C16_ErrorReplacesContent ==
    [][\A t \in TurnIds :
        (InFlight(t) /\ turns'[t].pc = "failed")
        => \A i \in OfTurn(messages', t, "assistant") :
                \E e \in ErrorTexts : messages'[i].content = <<e>>]_vars

\* C17: once a turn has completed, the durable copy equals the full in-memory
\* message sequence: a reload restores exactly the same messages (order,
\* roles, content, image attachments), none of them streaming.
C17_HistoryRoundTrip ==
    [][\A t \in TurnIds :
        (turns[t].pc # "completed" /\ turns'[t].pc = "completed")
        => /\ LoadChat(chatStorage') = messages'
           /\ \A i \in 1..Len(messages') : ~messages'[i].isStreaming]_vars

\* C18: every annotation record has a rect, in the in-memory collection and
\* in the durable annotation blob: no operation that writes under the
\* annotation storage key stores a record without a rect.
C18_EveryRecordHasRect ==
    /\ \A i \in 1..Len(annotations) : annotations[i].rect # NoRect
    /\ \A i \in 1..Len(annStorage.value) : annStorage.value[i].rect # NoRect

\* C19: annotations are scoped to their document: the annotations listed and
\* overlaid on the pages of the open document were all created on it, and a
\* mutation made while one document is open never rewrites the records of
\* another document in the durable copy.
C19_AnnotationsScoped ==
    /\ [](pdfFile # "none" =>
            \A p \in Pages :
                \A k \in 1..Len(getPageAnnotations(p)) :
                    getPageAnnotations(p)[k].doc = pdfFile)
    /\ [][LET Foreign(a) == a.doc # pdfFile
           IN  (pdfFile' = pdfFile /\ annStorage' # annStorage)
                => SelectSeq(annStorage'.value, Foreign)
                        = SelectSeq(annStorage.value, Foreign)]_vars

\* C20: deleting a document cascades to its annotations: after delete(id) of
\* the registry no annotation owned by document id remains and the
\* annotations of the other documents are unchanged; and at all times every
\* annotation's owning document exists.
C20_DeleteCascades ==
    /\ [][\A id \in PdfIds :
            pdfOps_delete(id) =>
                /\ \A k \in 1..Len(db'.annotations) : db'.annotations[k].pdf_id # id
                /\ SelectSeq(db'.annotations, LAMBDA a : a.pdf_id # id)
                        = SelectSeq(db.annotations, LAMBDA a : a.pdf_id # id)]_vars
    /\ [](\A k \in 1..Len(db.annotations) :
            \E j \in 1..Len(db.pdfs) : db.pdfs[j].id = db.annotations[k].pdf_id)

\* C21: a Selection is destroyed by each of its terminal events: after the
\* toolbar's close button, after a toolbar action sent it to the chat, and
\* after it was made an annotation, neither the viewer's selection nor the
\* page's selection holds a Selection.
C21_SelectionDestroyed ==
    [][(\/ handleClearSelection
        \/ handleToolbarAction
        \/ CanAnnotate(selection) /\ \E i \in AnnotationInputs : addAnnotation(i[1], i[2]))
            => selection' = NoSelection /\ pageSelection' = NoSelection]_vars

\* C22: at every zoom reached through zoomIn and zoomOut the overlay of every
\* annotation has the position and size of its stored rect multiplied by
\* (current zoom / zoom at capture).
C22_OverlayFollowsZoom ==
    \A p \in Pages :
        \A k \in 1..Len(getPageAnnotations(p)) :
            LET ann == getPageAnnotations(p)[k] IN
                /\ OverlayStyle(ann).left * ann.zoom = ann.rect.x * scale
                /\ OverlayStyle(ann).top * ann.zoom = ann.rect.y * scale
                /\ OverlayStyle(ann).width * ann.zoom = ann.rect.width * scale
                /\ OverlayStyle(ann).height * ann.zoom = ann.rect.height * scale

\* C23: for every valid region capture (width > 10 and height > 10) on a
\* canvas with ratios scaleX and scaleY, the extracted image is exactly
\* round(width * scaleX) by round(height * scaleY) pixels.
C23_ImageDimensions ==
    [][(/\ isSelecting
        /\ selectionRect # NoDrag
        /\ LargeEnough(DragRect(selectionRect))
        /\ ~isSelecting'
        /\ selection'.type = "region")
            => selection'.imageData =
                    [width |-> RoundHalves(DragRect(selectionRect).width * canvasRatio.x),
                     height |-> RoundHalves(DragRect(selectionRect).height * canvasRatio.y)]]_vars

\* text has one of the symbols at some position
HasSymbol(text, symbols) ==
    \E i \in 1..Len(text) : CharAt(text, i) \in symbols

\* text has a digit immediately followed by one of the markers
HasPower(text, markers) ==
    \E i \in 1..(Len(text) - 1) :
        CharAt(text, i) \in DigitClass /\ CharAt(text, i + 1) \in markers

\* text has a letter, an operator and a letter or digit in this order, with
\* nothing but white space between them
HasVariable(text) ==
    LET letters == LetterClass \cup {CharAt(UpperCase, i) : i \in 1..Len(UpperCase)}
        Blank(a, b) == \A m \in (a + 1)..(b - 1) : CharAt(text, m) \in WhitespaceClass
    IN  \E i \in 1..Len(text) : \E j \in (i + 1)..Len(text) : \E k \in (j + 1)..Len(text) :
            /\ CharAt(text, i) \in letters
            /\ CharAt(text, j) \in OperatorClass
            /\ CharAt(text, k) \in letters \cup DigitClass
            /\ Blank(i, j) /\ Blank(j, k)

\* the Selection of a text selection is made of a trimmed, non-empty text and
\* is an Equation exactly when the text has the given symbols, powers or a
\* variable pattern
C24_ClassifiedBy(symbols, markers) ==
    /\ selection.type \in {"text", "equation"} =>
            /\ selection.content # ""
            /\ selection.content = Trim(selection.content)
            /\ selection.type = "equation" <=>
                    \/ HasSymbol(selection.content, symbols)
                    \/ HasPower(selection.content, markers)
                    \/ HasVariable(selection.content)
    /\ IsMath("$f(x)dx") /\ ~IsMath("The cat sat") /\ IsMath("x = 5")
    /\ \A n \in 0..MaxText : Trim(SubSeq("      ", 1, n)) = ""

\* C24 (as stated): the classifier yields Equation exactly when the trimmed
\* text contains a symbol of the fixed operator/Greek set, or a digit followed
\* by an exponent marker (a superscript), or a single-letter variable followed
\* by an operator and an alphanumeric, and Text otherwise; an empty or
\* whitespace-only selection emits no Selection.
C24_ClassifierAsStated == C24_ClassifiedBy(SymbolClass, {"@"})

\* C24 (amended): as above, where the symbols are matched without regard to
\* case (a capital Greek letter counts) and the character after the digit is
\* x, X or a superscript.
C24_Classifier == C24_ClassifiedBy(SymbolClass \cup {"%"}, {"x", "X", "@"})

C24_Witness ==
    /\ selection.type = "equation"
    /\ selection.content = "a +5"
    /\ pageSelection = selection

\* C25: a write to the durable storage that fails while the chat history or
\* the annotations are persisted aborts neither the operation nor the
\* component: the messages and annotations in memory keep the mutation and the
\* component stays mounted, so that later sends, creates and deletes work.
C25_WriteFailureTolerated ==
    [][(\/ \E i \in AnnotationInputs : addAnnotationThrows(i[1], i[2])
        \/ \E k \in 1..Len(annotations) : deleteAnnotationThrows(annotations[k].id)
        \/ handleManualSendThrows)
            => /\ ~crashed'
               /\ Len(annotations') # Len(annotations) \/ Len(messages') > Len(messages)]_vars

\* C26: annotation ids are unique: whatever creates and deletes were made, no
\* two annotations of the collection (in memory or in the durable copy) share
\* an id, and a delete by id removes at most one annotation.
C26_UniqueIds ==
    /\ [](/\ \A i, j \in 1..Len(annotations) :
                i # j => annotations[i].id # annotations[j].id
           /\ \A m, n \in 1..Len(annStorage.value) :
                m # n => annStorage.value[m].id # annStorage.value[n].id)
    /\ [][\A id \in AnnotationIds :
            deleteAnnotation(id) => Len(annotations') >= Len(annotations) - 1]_vars

\* C27: apart from clear(), the message sequence is append-only: a send, a
\* chunk, a completion or a failure leaves every committed message
\* (isStreaming = false) as it is and where it is; a send appends one User
\* message and one placeholder; the only message changed in place is the
\* last one while it is a streaming Assistant message, and its content only
\* grows by appending.
C27_AppendOnly ==
    [][(/\ turns' # turns
        /\ \A t \in TurnIds : turns'[t].pc = "dead" => turns[t].pc = "dead")
            => LET n == Len(messages) IN
               /\ Len(messages') \in {n, n + 2}
               /\ Len(messages') = n + 2 =>
                    /\ SubSeq(messages', 1, n) = messages
                    /\ messages'[n + 1].role = "user"
                    /\ messages'[n + 2].role = "assistant"
               /\ \A i \in 1..n :
                    messages'[i] # messages[i] =>
                        /\ i = n
                        /\ messages[i].role = "assistant"
                        /\ messages[i].isStreaming
                        /\ messages'[i].role = "assistant"
                        /\ Len(messages'[i].content) >= Len(messages[i].content)
                        /\ SubSeq(messages'[i].content, 1, Len(messages[i].content))
                                = messages[i].content]_vars

\* C28: the Assistant content does not depend on how the transport splits
\* the response body into reads: once the body has been delivered, in reads of
\* whatever sizes, the fragments passed to onChunk are those of the valid
\* events of the body, each once and in order, as when the body comes in one
\* read.
C28_SegmentationIndependent ==
    \A t \in TurnIds :
        (turns[t].pc = "reading" /\ turns[t].offset = Len(WireStream)) =>
            /\ turns[t].fullResponse = WireTexts(SplitLines(WireStream))
            /\ Last(messages).content = WireTexts(SplitLines(WireStream))

\* C29: an image attached to a toolbar-triggered turn is sent with that turn
\* only: once the send has started the chat's pendingImage is empty, and the
\* User message of a manual send carries no image but the pending one.
C29_ImageSentOnce ==
    [][/\ handleToolbarAction => pendingImage' = NoImage
       /\ (handleManualSend /\ pendingImage = NoImage)
            => Last(SelectSeq(messages', LAMBDA m : m.role = "user")).imageData = NoImage]_vars

\* C30: when a pointer-up completes a valid region drag (canvas rendered,
\* width and height above the threshold), the Selection of the viewer and of
\* the page after the event is the Region selection with its rect and image,
\* whatever native text selection exists at that moment.
C30_RegionSurvivesTextSelection ==
    [][\A nativeText \in NativeTexts :
        (/\ isSelecting
         /\ selectionRect # NoDrag
         /\ LargeEnough(DragRect(selectionRect))
         /\ MouseUp(TRUE, nativeText))
        => /\ selection' = RegionSelection(selectionRect)
           /\ selection'.rect # NoRect
           /\ selection'.imageData # NoImage
           /\ pageSelection' = selection']_vars

====
